---- MODULE Spec2Model ----
(***************************************************************************)
(* journaldb: a record store (SQLite table journal_entries, reached        *)
(* through the JournalEntry model) and a Whoosh search index, written one  *)
(* after the other by create_entry / update_entry / delete_entry           *)
(* (models.py), and the file-facing wrappers of pageio.py.                 *)
(*                                                                         *)
(* One action models one call of a function of the program.  The process   *)
(* is single threaded, so a call is one step.  A call that raises leaves   *)
(* the writes it made before the raise in place (nothing is rolled back).  *)
(***************************************************************************)
EXTENDS Integers, Sequences, FiniteSets, Bags, TLC

\* ------------------------------------------------------------------ bounds
\* Ids the record store may hand out (creates are disabled beyond it).
MaxId == 2
\* Documents the index may hold (index additions are disabled beyond it).
MaxDocs == 2

\* ------------------------------------------------------------ value domains
\* title and date are the two fields create_entry looks a row up by; content
\* and tags are carried along.  One field of each kind takes two values.
Titles == {"a", "b"}
Contents == {"x", "y"}
\* Calendar dates, as day numbers.
Dates == {1}
Tags == {"t"}

Ids == 1..MaxId

\* A row of journal_entries without its primary key (core.py:40-44).
Entry == [title : Titles, content : Contents, date : Dates, tags : Tags]

\* Python's None for an optional argument of update_entry (models.py:77-78):
\* text arguments are None or a string, the date is None or a datetime.
\* "" stands for None and for the empty string (both falsy), 0 for no date.
OptTitles == Titles \cup {""}
OptContents == Contents \cup {""}
OptDates == Dates \cup {0}
OptTags == Tags \cup {""}

VARIABLES
    store,    \* journal_entries: id -> row
    index,    \* the Whoosh index: a bag of stored documents
    last,     \* the call under observation: its name, its arguments, the
              \* state it started in, its outcome and its writes
    held,     \* history: id -> the rows the store has held under that id
    page      \* the file pageio writes and reads: the call that wrote it,
              \* the document written, the text, what parse_file made of it

vars == <<store, index, last, held, page>>

\* ------------------------------------------------------------ record store

\* JournalEntry.get(db, id=entry_id): the row, or nothing.
HasId(st, i) == i \in DOMAIN st

\* JournalEntry.get(db, title=title, date=date): the ids of the rows that
\* match.  The table has no uniqueness constraint on (title, date)
\* (core.py:40-44); get returns one row, and SQL fixes no order among
\* several matches, so the caller gets any of them.
IdsByTitleDate(st, title, date) ==
    {i \in DOMAIN st : st[i].title = title /\ st[i].date = date}

MaxOf(S) == IF S = {} THEN 0 ELSE CHOOSE m \in S : \A x \in S : x <= m

\* The id INSERT assigns to `id INTEGER PRIMARY KEY` (core.py:40), SQLite's
\* rowid: one more than the largest id in the table.  The id of a deleted
\* last row is assigned again.
NewId(st) == MaxOf(DOMAIN st) + 1

\* JournalEntry.create(db, title=..., content=..., date=..., tags=...)
StoreCreate(st, i, e) ==
    [j \in DOMAIN st \cup {i} |-> IF j = i THEN e ELSE st[j]]

\* JournalEntry.delete(db, id=entry_id)
StoreDelete(st, i) == [j \in DOMAIN st \ {i} |-> st[j]]

\* ------------------------------------------------------------ search index

\* id=str(entry_id)
IdStr(i) == ToString(i)

Doc(i, title, content, date, tags) ==
    [id |-> IdStr(i), title |-> title, content |-> content, date |-> date,
     tags |-> tags]

DocOf(i, e) == Doc(i, e.title, e.content, e.date, e.tags)

\* The documents of the index whose id field is that of entry i.
DocsOf(ix, i) == {d \in DOMAIN ix : d.id = IdStr(i)}

\* How many documents the index holds for entry i.
CountOf(ix, i) ==
    LET S == DocsOf(ix, i)
        sum[T \in SUBSET S] ==
            IF T = {} THEN 0
            ELSE LET d == CHOOSE x \in T : TRUE IN ix[d] + sum[T \ {d}]
    IN sum[S]

\* writer.delete_by_term('id', str(entry_id)): every document with that id.
IxDeleteByTerm(ix, i) == [d \in DOMAIN ix \ DocsOf(ix, i) |-> ix[d]]

\* writer.add_document(...): one more document, whatever the index holds.
IxAddDocument(ix, d) == ix (+) SetToBag({d})

\* The new document is added and the old ones are kept.
IxUpdateDocumentKeepsOld(ix, i, d) == ix (+) SetToBag({d})

\* writer.update_document(...): id is a unique field of the schema
\* (core.py:63), so the documents with that id are deleted, then the new
\* one is added.
IxUpdateDocument(ix, i, d) == IxDeleteByTerm(ix, i) (+) SetToBag({d})

\* --------------------------------------------------------------- outcomes

\* What a call did: the exception it raised ("none": it returned), the
\* line it printed, and the writes it made, in order.
StoreEv(i) == [k |-> "store", id |-> i]
IndexEv(i) == [k |-> "index", id |-> i]

Result(st, ix, raised, printed, log) ==
    [store |-> st, index |-> ix, raised |-> raised, printed |-> printed,
     log |-> log]

\* ------------------------------------------------------------- create_entry

\* The row is taken back when the index writer does not commit.
CreateEntryRollback(st, ix, nid, rid, e, ixOk) ==
    IF ixOk
    THEN Result(StoreCreate(st, nid, e), IxAddDocument(ix, DocOf(rid, e)),
                "none", "", <<StoreEv(nid), IndexEv(rid)>>)
    ELSE Result(st, ix, "IndexError", "", <<StoreEv(nid)>>)

\* create_entry(db, ix, title, content, date, tags), with nid the id the
\* INSERT assigns, rid the id of the row JournalEntry.get returns for
\* (title, date), and ixOk whether the index writer commits.
CreateEntryResult(st, ix, nid, rid, e, ixOk) ==
    LET st1 == StoreCreate(st, nid, e)
    IN IF ixOk
       THEN Result(st1, IxAddDocument(ix, DocOf(rid, e)), "none", "",
                   <<StoreEv(nid), IndexEv(rid)>>)
       ELSE Result(st1, ix, "IndexError", "", <<StoreEv(nid)>>)

\* ------------------------------------------------------------- update_entry

\* `entry = JournalEntry.get(db, id=entry_id); if not entry: ... return`
UpdateFound(st, i) == HasId(st, i)

\* A full replace: every argument overwrites the stored value, given or not.
UpdatedFieldsReplaceAll(old, title, content, date, tags) ==
    [title |-> title, content |-> content, date |-> date, tags |-> tags]

\* updated_fields applied to the row: an argument overwrites the stored
\* value when it is truthy (not None, not empty).
UpdatedFields(old, title, content, date, tags) ==
    [title   |-> IF title # "" THEN title ELSE old.title,
     content |-> IF content # "" THEN content ELSE old.content,
     date    |-> IF date # 0 THEN date ELSE old.date,
     tags    |-> IF tags # "" THEN tags ELSE old.tags]

\* updated_fields == {}: no argument was truthy.
NoFields(title, content, date, tags) ==
    title = "" /\ content = "" /\ date = 0 /\ tags = ""

\* The UPDATE has no WHERE clause: every row takes the given fields.
StoreUpdateAllRows(st, i, title, content, date, tags) ==
    [j \in DOMAIN st |-> UpdatedFields(st[j], title, content, date, tags)]

\* JournalEntry.update(db, where={'id': entry_id}, updates=updated_fields)
StoreUpdate(st, i, title, content, date, tags) ==
    [j \in DOMAIN st |->
        IF j = i THEN UpdatedFields(st[j], title, content, date, tags)
        ELSE st[j]]

\* The exception of the index writer is caught and the call goes on.
UpdateEntrySwallow(st, ix, i, title, content, date, tags, emptyOk, ixOk) ==
    IF ~UpdateFound(st, i)
    THEN Result(st, ix, "none", "Entry not found!", <<>>)
    ELSE IF NoFields(title, content, date, tags) /\ ~emptyOk
    THEN Result(st, ix, "StoreError", "", <<>>)
    ELSE LET st1 == StoreUpdate(st, i, title, content, date, tags)
         IN IF ixOk
            THEN Result(st1, IxUpdateDocument(ix, i, DocOf(i, st1[i])),
                        "none", "updated", <<StoreEv(i), IndexEv(i)>>)
            ELSE Result(st1, ix, "none", "updated", <<StoreEv(i)>>)

\* update_entry(db, ix, entry_id, title, content, date, tags).  emptyOk:
\* whether the store accepts an UPDATE that sets no column (it changes
\* nothing) or raises on it; ixOk: whether the index writer commits.
UpdateEntryResult(st, ix, i, title, content, date, tags, emptyOk, ixOk) ==
    IF ~UpdateFound(st, i)
    THEN Result(st, ix, "none", "Entry not found!", <<>>)
    ELSE IF NoFields(title, content, date, tags) /\ ~emptyOk
    THEN Result(st, ix, "StoreError", "", <<>>)
    ELSE LET st1 == StoreUpdate(st, i, title, content, date, tags)
         IN IF ixOk
            THEN Result(st1, IxUpdateDocument(ix, i, DocOf(i, st1[i])),
                        "none", "updated", <<StoreEv(i), IndexEv(i)>>)
            ELSE Result(st1, ix, "IndexError", "", <<StoreEv(i)>>)

\* ------------------------------------------------------------- delete_entry

\* The lookup's result is not tested.
DeleteFoundAlways(st, i) == TRUE

\* `entry = JournalEntry.get(db, id=entry_id); if not entry: ... return`
DeleteFound(st, i) == HasId(st, i)

\* The index delete is made first, before the row is looked up.
DeleteEntryIndexFirst(st, ix, i, ixOk) ==
    LET ix1 == IF ixOk THEN IxDeleteByTerm(ix, i) ELSE ix
    IN IF ~DeleteFound(st, i)
       THEN Result(st, ix1, "none", "Entry not found!", <<>>)
       ELSE Result(StoreDelete(st, i), ix1,
                   IF ixOk THEN "none" ELSE "IndexError",
                   IF ixOk THEN "deleted" ELSE "", <<StoreEv(i)>>)

\* The index delete raises when the index has no document of the id.
DeleteEntryStrict(st, ix, i, ixOk) ==
    IF ~DeleteFound(st, i)
    THEN Result(st, ix, "none", "Entry not found!", <<>>)
    ELSE LET st1 == StoreDelete(st, i)
         IN IF ~ixOk
            THEN Result(st1, ix, "IndexError", "", <<StoreEv(i)>>)
            ELSE IF DocsOf(ix, i) = {}
            THEN Result(st1, ix, "KeyError", "", <<StoreEv(i), IndexEv(i)>>)
            ELSE Result(st1, IxDeleteByTerm(ix, i), "none", "deleted",
                        <<StoreEv(i), IndexEv(i)>>)

\* delete_entry(db, ix, entry_id)
DeleteEntryResult(st, ix, i, ixOk) ==
    IF ~DeleteFound(st, i)
    THEN Result(st, ix, "none", "Entry not found!", <<>>)
    ELSE LET st1 == StoreDelete(st, i)
         IN IF ixOk
            THEN Result(st1, IxDeleteByTerm(ix, i), "none", "deleted",
                        <<StoreEv(i), IndexEv(i)>>)
            ELSE Result(st1, ix, "IndexError", "", <<StoreEv(i)>>)

\* --------------------------------------------------------- update_data_in_db

\* The id key of a file's header: given with a value, or not given.
HeaderIds ==
    {[given |-> FALSE, value |-> 0]} \cup
    {[given |-> TRUE, value |-> v] : v \in 0..MaxId}

\* `id=header_data.get('id', 0)` (parse_file): the id of the document read
\* from a file.
ParsedId(h) == IF h.given THEN h.value ELSE 0

\* The id is not tested.
InvalidIdNever(jed) == FALSE

\* `if jed.id == 0: raise ValueError("Invalid entry ID")`
InvalidId(jed) == jed.id = 0

\* update_data_in_db(db, ix, jed), jed a JournalEntryData.  pageio imports
\* create_entry alone (pageio.py:29): the name update_entry is unbound in
\* the module (as is tags_str, pageio.py:88), so the call statement raises
\* NameError before anything is called.
UpdateDataInDbResult(st, ix, jed) ==
    IF InvalidId(jed)
    THEN Result(st, ix, "ValueError", "", <<>>)
    ELSE Result(st, ix, "NameError", "", <<>>)

\* ------------------------------------------------------------ file text
\* The text of a file is a sequence of symbols: a symbol is one character
\* ("-", " ", "\n", "'", a letter) or a run of characters without hyphen,
\* quote or line break written as one (a key with its colon, a word).

\* Symbols a title or a tag list may have (MaxLen), and a body (MaxBody).
MaxLen == 4
MaxBody == 2

\* '---'
Marker == <<"-", "-", "-">>

\* The texts of at most n symbols of A.
TextsOf(A, n) == UNION {[1..k -> A] : k \in 0..n}

\* Where pat occurs in text.
Occurs(text, pat) ==
    {k \in 1..(Len(text) - Len(pat) + 1) :
        SubSeq(text, k, k + Len(pat) - 1) = pat}

\* `pat in text`
Contains(text, pat) == Occurs(text, pat) # {}

MinOf(S) == CHOOSE m \in S : \A x \in S : m <= x

\* text.split(pat, 1): the text before the first occurrence of pat and the
\* text after it, or the text alone when pat does not occur.
Split1(text, pat) ==
    IF ~Contains(text, pat) THEN <<text>>
    ELSE LET k == MinOf(Occurs(text, pat))
         IN <<SubSeq(text, 1, k - 1),
              SubSeq(text, k + Len(pat), Len(text))>>

\* The lines of a text.
RECURSIVE SplitLines(_)
SplitLines(text) ==
    LET p == Split1(text, <<"\n">>)
    IN IF Len(p) = 1 THEN <<text>> ELSE <<p[1]>> \o SplitLines(p[2])

White == {" ", "\n"}

RECURSIVE LStrip(_)
LStrip(text) ==
    IF text # << >> /\ Head(text) \in White THEN LStrip(Tail(text)) ELSE text

RECURSIVE RStrip(_)
RStrip(text) ==
    IF text # << >> /\ text[Len(text)] \in White
    THEN RStrip(SubSeq(text, 1, Len(text) - 1)) ELSE text

\* text.strip()
Strip(text) == LStrip(RStrip(text))

\* ------------------------------------------------------------------- YAML
\* yaml.dump and yaml.safe_load on the headers of pageio.py: a block
\* mapping of the keys title, tags, date, id, one `key: value` line each.

Keys == {"title", "tags", "date", "id"}

\* The keys parse_file asks of a header.
RequiredKeys == {"title", "tags", "date"}
KeySym(k) == k \o ": "
KeySyms == {KeySym(k) : k \in Keys}

\* yaml.dump writes a string plain unless the plain text would not read
\* back as that string: the empty string, a leading "- " or a lone "-"
\* (block entry), a leading '---' (document start), a space at either end.
\* Hyphens anywhere else are written as they are.
NeedsQuotes(v) ==
    \/ v = << >>
    \/ Head(v) = "-" /\ (Len(v) = 1 \/ v[2] = " ")
    \/ Len(v) >= 3 /\ SubSeq(v, 1, 3) = Marker
    \/ Head(v) = " "
    \/ v[Len(v)] = " "

\* A string as yaml.dump writes it.
YamlStr(v) == IF NeedsQuotes(v) THEN <<"'">> \o v \o <<"'">> ELSE v

\* yaml.dump(header, default_flow_style=False): keys in sorted order; the
\* date is a string that would read back as a date, so it is quoted; the
\* id is an integer.
YamlDump(h) ==
    <<"date: ", "'", h.date, "'", "\n", "id: ", ToString(h.id), "\n",
      "tags: ">> \o YamlStr(h.tags) \o <<"\n", "title: ">>
    \o YamlStr(h.title) \o <<"\n">>

\* The value of a `key: value` line, w being the text after the key without
\* the blanks around it: a single-quoted string ends at its closing quote
\* (the scanner fails without one); any other text is a plain value.
YamlScalar(w) ==
    IF w # << >> /\ Head(w) = "'"
    THEN IF Len(w) >= 2 /\ w[Len(w)] = "'"
         THEN [ok |-> TRUE, quoted |-> TRUE, str |-> SubSeq(w, 2, Len(w) - 1)]
         ELSE [ok |-> FALSE, quoted |-> TRUE, str |-> << >>]
    ELSE [ok |-> TRUE, quoted |-> FALSE, str |-> w]

YamlValue(v) == YamlScalar(Strip(v))

\* The mapping of the lines ls of a header.
YamlLines(ls) ==
    LET used == {n \in 1..Len(ls) : Strip(ls[n]) # << >>}
        keys == {k \in Keys : \E n \in used : Head(ls[n]) = KeySym(k)}
    IN IF \E n \in used : \/ Head(ls[n]) \notin KeySyms
                          \/ ~YamlValue(Tail(ls[n])).ok
       THEN [kind |-> "error", keys |-> {}, val |-> << >>]
       ELSE IF used = {} THEN [kind |-> "none", keys |-> {}, val |-> << >>]
       ELSE [kind |-> "map", keys |-> keys,
             val |-> [k \in keys |->
                        YamlValue(Tail(ls[CHOOSE m \in used :
                                            Head(ls[m]) = KeySym(k)]))]]

\* yaml.safe_load(header): None for a header without content, the mapping
\* of its lines, or a YAMLError.
YamlSafeLoad(header) == YamlLines(SplitLines(header))

\* ----------------------------------------------------------------- pageio
\* A datetime: a calendar day and a time of day (0: midnight).
Datetimes == [day : Dates, tod : {0, 1}]

\* The '%Y-%m-%d' text of a calendar day.
DateStr(d) == "2024-01-0" \o ToString(d)

\* jed.date.strftime('%Y-%m-%d'): the time of day is not written.
Strftime(dt) == DateStr(dt.day)

\* datetime.strptime(text, '%Y-%m-%d') accepts the text.
StrptimeOk(text) == \E d \in Dates : text = <<DateStr(d)>>

\* datetime.strptime(text, '%Y-%m-%d'): midnight of the day.
Strptime(text) ==
    [day |-> CHOOSE d \in Dates : text = <<DateStr(d)>>, tod |-> 0]

\* The integer of an id value (the headers considered carry an integer id
\* or no id).
IdOfText(text) ==
    IF \E i \in 0..MaxId : text = <<ToString(i)>>
    THEN CHOOSE i \in 0..MaxId : text = <<ToString(i)>>
    ELSE 0

\* JournalEntryData(title, tags, content, date, id)
JournalEntryData(title, tags, content, date, id) ==
    [title |-> title, tags |-> tags, content |-> content, date |-> date,
     id |-> id]

NoData == JournalEntryData(<< >>, << >>, << >>, [day |-> 0, tod |-> 0], 0)

\* parse_file raised.
Failed(raised) == [raised |-> raised, jed |-> NoData]

\* parse_file returned jed.
Parsed(jed) == [raised |-> "none", jed |-> jed]

\* The id of the document: `header_data.get('id', 0)`.
HeaderId(header_data) ==
    IF "id" \in header_data.keys
    THEN ParsedId([given |-> TRUE,
                   value |-> IdOfText(header_data.val["id"].str)])
    ELSE ParsedId([given |-> FALSE, value |-> 0])

\* parse_file from the loaded header on.  A header without content loads
\* as None, and `k in header_data` raises TypeError.  A date written
\* without quotes loads as a date, which strptime rejects with TypeError.
ParseLoaded(header_data, body) ==
    IF header_data.kind = "error" THEN Failed("YAMLError")
    ELSE IF header_data.kind = "none" THEN Failed("TypeError")
    ELSE IF ~(RequiredKeys \subseteq header_data.keys)
    THEN Failed("ValueError")
    ELSE IF ~header_data.val["date"].quoted THEN Failed("TypeError")
    ELSE IF ~StrptimeOk(header_data.val["date"].str)
    THEN Failed("ValueError")
    ELSE Parsed(JournalEntryData(header_data.val["title"].str,
                                 header_data.val["tags"].str,
                                 Strip(body),
                                 Strptime(header_data.val["date"].str),
                                 HeaderId(header_data)))

\* `header, body = parts`: with one marker in the text the second split
\* gives one part, and unpacking it raises ValueError.
ParseParts(parts) ==
    IF Len(parts) # 2 THEN Failed("ValueError")
    ELSE ParseLoaded(YamlSafeLoad(parts[1]), parts[2])

\* parse_file(filename), on the text of the file.
ParseFileResult(content) ==
    IF ~Contains(content, Marker) THEN Failed("ValueError")
    ELSE ParseParts(Split1(Split1(content, Marker)[2], Marker))

\* write_data_to_file(jed, fname): the text written to the file.
WriteDataToFileText(jed) ==
    Marker \o <<"\n">>
    \o YamlDump([title |-> jed.title, tags |-> jed.tags,
                 date |-> Strftime(jed.date), id |-> jed.id])
    \o Marker \o <<"\n", "\n">> \o jed.content

\* A template whose title is a row of hyphens.
TemplateDataDashed(entryid, today) ==
    JournalEntryData(Marker, <<"+tag1,", " ", "+tag2">>,
                     <<"Write", " ", "stuff", " ", "here.">>, today, entryid)

\* The JournalEntryData of write_template_file(fname, entryid), today being
\* datetime.today().
TemplateData(entryid, today) ==
    JournalEntryData(<<"post", " ", "title">>, <<"+tag1,", " ", "+tag2">>,
                     <<"Write", " ", "stuff", " ", "here.">>, today, entryid)

\* The documents written to files: title and tags of letters and hyphens,
\* a body of letters, blanks and hyphens, a calendar date, an id or 0.
TitleSyms == {"a", "-"}
TagSyms == {"t", "-"}
BodySyms == {"x", " ", "-"}

Documents ==
    {JournalEntryData(title, tags, content, date, id) :
        title \in TextsOf(TitleSyms, MaxLen) \ {<< >>},
        tags \in TextsOf(TagSyms, Len(Marker)) \ {<< >>},
        content \in TextsOf(BodySyms, MaxBody) \ {<< >>},
        date \in {dt \in Datetimes : dt.tod = 0},
        id \in 0..MaxId}

\* -------------------------------------------------------------------- cli
\* The files handed to `add` and `update`: a file has the opening and the
\* closing marker, the opening one alone, or none (markers); its header has
\* a line for each key of keys, with the fields of row and the id; its body
\* is the content of row.  A file is short of one thing at most: of markers
\* or of keys.
\* The file with markers markers, a line for each key of keys and for the
\* id when h gives one, and the fields of row.
Shape(markers, keys, h, row) ==
    [markers |-> markers,
     keys |-> IF h.given THEN keys \cup {"id"} ELSE keys,
     id |-> ParsedId(h), row |-> row]

\* The files that are short of something have one row, and no id or id 1.
FileShapes ==
    LET row0 == [title |-> "a", content |-> "x", date |-> 1, tags |-> "t"]
        ids0 == {h \in HeaderIds : h.value = 1 \/ ~h.given}
    IN {Shape(2, RequiredKeys, h, row) : h \in HeaderIds, row \in Entry}
       \cup {Shape(m, RequiredKeys, h, row0) : m \in 0..1, h \in ids0}
       \cup {Shape(2, keys, h, row0) :
               keys \in (SUBSET RequiredKeys) \ {RequiredKeys}, h \in ids0}

NoShape == [markers |-> 0, keys |-> {}, id |-> 0,
            row |-> [title |-> "", content |-> "", date |-> 0, tags |-> ""]]

\* The header line of key k, when the file has one.
HeaderLine(sh, k, v) ==
    IF k \in sh.keys THEN <<KeySym(k)>> \o v \o <<"\n">> ELSE << >>

\* The text of the file.
FileText(sh) ==
    LET lines == HeaderLine(sh, "date", <<"'", DateStr(sh.row.date), "'">>)
                 \o HeaderLine(sh, "id", <<ToString(sh.id)>>)
                 \o HeaderLine(sh, "tags", <<sh.row.tags>>)
                 \o HeaderLine(sh, "title", <<sh.row.title>>)
        body == <<sh.row.content>>
    IN IF sh.markers = 2
       THEN Marker \o <<"\n">> \o lines \o Marker \o <<"\n", "\n">> \o body
       ELSE IF sh.markers = 1
       THEN Marker \o <<"\n">> \o lines \o <<"\n">> \o body
       ELSE lines \o <<"\n">> \o body

\* The string of a text of one symbol.
Str(text) == IF Len(text) = 1 THEN text[1] ELSE ""

\* The row create_entry is given by add_data_to_db(db, ix, jed).
RowOfData(jed) ==
    [title |-> Str(jed.title), content |-> Str(jed.content),
     date |-> jed.date.day, tags |-> Str(jed.tags)]

\* parse_file(filename) of each of the files.
FileRead == [sh \in FileShapes |-> ParseFileResult(FileText(sh))]

\* add_command(db, ix, filename), p being what parse_file(filename) returned
\* or raised: an exception of parse_file leaves the command; a document
\* goes to add_data_to_db, which is create_entry.
AddCommandResult(st, ix, p, nid, rid, ixOk) ==
    IF p.raised # "none" THEN Result(st, ix, p.raised, "", <<>>)
    ELSE CreateEntryResult(st, ix, nid, rid, RowOfData(p.jed), ixOk)

\* update_command(db, ix, filename), p being what parse_file(filename)
\* returned or raised: a document goes to update_data_in_db.
UpdateCommandResult(st, ix, p) ==
    IF p.raised # "none" THEN Result(st, ix, p.raised, "", <<>>)
    ELSE UpdateDataInDbResult(st, ix, p.jed)

\* -------------------------------------------------------------- the machine

\* No call is under observation.
NoCall ==
    [op |-> "none", id |-> 0, idGiven |-> FALSE, title |-> "",
     content |-> "", date |-> 0, tags |-> "", store0 |-> << >>,
     index0 |-> EmptyBag, raised |-> "none", printed |-> "", log |-> << >>,
     file |-> NoShape]

\* The call op(i, title, content, date, tags) made in the current state,
\* with result r.  idGiven: the id was given (for a document read from a
\* file: its header had an id key).
Call(op, i, given, title, content, date, tags, r) ==
    [op |-> op, id |-> i, idGiven |-> given, title |-> title,
     content |-> content, date |-> date, tags |-> tags, store0 |-> store,
     index0 |-> index, raised |-> r.raised, printed |-> r.printed,
     log |-> r.log, file |-> NoShape]

\* The call op(filename) of the cli made in the current state, for the file
\* sh, with result r; the fields are those parse_file read.
FileCall(op, sh, jed, r) ==
    [Call(op, jed.id, "id" \in sh.keys, Str(jed.title), Str(jed.content),
          jed.date.day, Str(jed.tags), r) EXCEPT !.file = sh]

\* The rows held under each id, once the store has become st.
Held(h, st) ==
    [j \in Ids |-> IF j \in DOMAIN st THEN h[j] \cup {st[j]} ELSE h[j]]

\* The behaviours come in three kinds, which differ in what is recorded
\* about the program, never in what the program does:
\*   "watch"  any call may be put under observation (last); the call under
\*            observation is the last step of its behaviour, so that every
\*            call from every reachable state is observed in some behaviour;
\*   "held"   the rows the store has held are recorded (held);
\*   "sync"   as "watch", and no index write fails.
Watched(mode) == IF mode = "held" THEN {FALSE} ELSE BOOLEAN

\* Whether the index writer commits: writer.commit() may raise (the index
\* is files on disk, behind a lock).
IxOutcomes(mode) == IF mode = "sync" THEN {TRUE} ELSE BOOLEAN

\* The effect on the state of the call c, with result r.
Effect(mode, c, r) ==
    /\ BagCardinality(r.index) <= MaxDocs
    /\ store' = r.store
    /\ index' = r.index
    /\ \E w \in Watched(mode) : last' = IF w THEN c ELSE last
    /\ held' = IF mode = "held" THEN Held(held, r.store) ELSE held
    /\ UNCHANGED page

\* The effect of a call on the state.
Apply(mode, op, i, given, title, content, date, tags, r) ==
    Effect(mode, Call(op, i, given, title, content, date, tags, r), r)

\* parse_file has not read the file.
NotRead == Failed("unread")

\* No file is written.
NoPage == [op |-> "none", jed |-> NoData, text |-> << >>, read |-> NotRead]

\* The file op has written for jed.
Written(op, jed) ==
    [op |-> op, jed |-> jed, text |-> WriteDataToFileText(jed),
     read |-> NotRead]

Init ==
    /\ store = << >>
    /\ index = EmptyBag
    /\ last = NoCall
    /\ held = [j \in Ids |-> {}]
    /\ page = NoPage

CreateEntry(mode) ==
    /\ last = NoCall
    /\ \E e \in Entry, ixOk \in IxOutcomes(mode) :
        LET nid == NewId(store)
        IN /\ nid \in Ids
           /\ \E rid \in IdsByTitleDate(StoreCreate(store, nid, e),
                                         e.title, e.date) :
                Apply(mode, "create_entry", 0, FALSE, e.title, e.content,
                      e.date, e.tags,
                      CreateEntryResult(store, index, nid, rid, e, ixOk))

UpdateEntry(mode) ==
    /\ last = NoCall
    /\ \E i \in Ids, title \in OptTitles, content \in OptContents,
       date \in OptDates, tags \in OptTags :
        \E emptyOk \in IF NoFields(title, content, date, tags)
                       THEN BOOLEAN ELSE {TRUE},
           ixOk \in IF HasId(store, i) THEN IxOutcomes(mode) ELSE {TRUE} :
            Apply(mode, "update_entry", i, TRUE, title, content, date, tags,
                  UpdateEntryResult(store, index, i, title, content, date,
                                    tags, emptyOk, ixOk))

DeleteEntry(mode) ==
    /\ last = NoCall
    /\ \E i \in Ids, ixOk \in IxOutcomes(mode) :
        Apply(mode, "delete_entry", i, TRUE, "", "", 0, "",
              DeleteEntryResult(store, index, i, ixOk))

UpdateDataInDb(mode) ==
    /\ last = NoCall
    /\ \E h \in HeaderIds, e \in Entry :
        LET jed == [id |-> ParsedId(h), title |-> e.title,
                    content |-> e.content, date |-> e.date, tags |-> e.tags]
        IN Apply(mode, "update_data_in_db", jed.id, h.given, jed.title,
                 jed.content, jed.date, jed.tags,
                 UpdateDataInDbResult(store, index, jed))

\* The effect of the command op of the cli on the file sh, p being what
\* parse_file returned or raised and r the result of the command.
CommandEffect(mode, op, sh, p, r) ==
    Effect(mode, FileCall(op, sh, p.jed, r), r)

\* The ids of the rows JournalEntry.get may return to the create_entry of
\* add_command (no lookup is made when parse_file raised).
LookedUp(st, p) ==
    IF p.raised # "none" THEN {0}
    ELSE IdsByTitleDate(StoreCreate(st, NewId(st), RowOfData(p.jed)),
                        RowOfData(p.jed).title, RowOfData(p.jed).date)

\* add_command on the file sh, read as p.
AddRead(mode, sh, p) ==
    /\ p.raised = "none" => NewId(store) \in Ids
    /\ \E ixOk \in IxOutcomes(mode), rid \in LookedUp(store, p) :
         CommandEffect(mode, "add_command", sh, p,
                       AddCommandResult(store, index, p, NewId(store), rid,
                                        ixOk))

\* `journaldb add <file>`
AddCommand(mode) ==
    /\ last = NoCall
    /\ \E sh \in FileShapes : AddRead(mode, sh, FileRead[sh])

\* update_command on the file sh, read as p.
UpdateRead(mode, sh, p) ==
    CommandEffect(mode, "update_command", sh, p,
                  UpdateCommandResult(store, index, p))

\* `journaldb update <file>`
UpdateCommand(mode) ==
    /\ last = NoCall
    /\ \E sh \in FileShapes : UpdateRead(mode, sh, FileRead[sh])

Next ==
    \/ CreateEntry("watch")
    \/ UpdateEntry("watch")
    \/ DeleteEntry("watch")
    \/ UpdateDataInDb("watch")
    \/ AddCommand("watch")
    \/ UpdateCommand("watch")

Spec == Init /\ [][Next]_vars

NextHeld ==
    \/ CreateEntry("held")
    \/ UpdateEntry("held")
    \/ DeleteEntry("held")
    \/ UpdateDataInDb("held")
    \/ AddCommand("held")
    \/ UpdateCommand("held")

SpecHeld == Init /\ [][NextHeld]_vars

NextSync ==
    \/ CreateEntry("sync")
    \/ UpdateEntry("sync")
    \/ DeleteEntry("sync")
    \/ UpdateDataInDb("sync")
    \/ AddCommand("sync")
    \/ UpdateCommand("sync")

SpecSync == Init /\ [][NextSync]_vars

\* write_data_to_file(jed, fname), fname a file that is not there yet: a
\* behaviour follows one file, written once and read once.
WriteDataToFile ==
    /\ page = NoPage
    /\ \E jed \in Documents : page' = Written("write_data_to_file", jed)
    /\ UNCHANGED <<store, index, last, held>>

\* write_template_file(fname, entryid)
WriteTemplateFile ==
    /\ page = NoPage
    /\ \E entryid \in 0..MaxId, today \in Datetimes :
         page' = Written("write_template_file", TemplateData(entryid, today))
    /\ UNCHANGED <<store, index, last, held>>

\* parse_file(filename) of the file written.
ParseFile ==
    /\ page.op # "none"
    /\ page.read = NotRead
    /\ page' = [page EXCEPT !.read = ParseFileResult(page.text)]
    /\ UNCHANGED <<store, index, last, held>>

NextCodec ==
    \/ WriteDataToFile
    \/ WriteTemplateFile
    \/ ParseFile

\* The files of pageio alone: written, then read back.
SpecCodec == Init /\ [][NextCodec]_vars

\* ----------------------------------------------------------------- claims

\* The row the arguments of the call under observation spell out.
RowOf(c) ==
    [title |-> c.title, content |-> c.content, date |-> c.date,
     tags |-> c.tags]

\* Store st and index ix agree on id i: a row has a document with its
\* fields, an absent id has no document.
AgreeOn(st, ix, i) ==
    IF HasId(st, i) THEN BagIn(DocOf(i, st[i]), ix) ELSE DocsOf(ix, i) = {}

\* C1: after any sequence of create_entry / update_entry / delete_entry
\* calls in which no index write fails, every id in the record store has an
\* index document with the row's title, content, date and tags, and every
\* id absent from the store has no index document.  (Stated of SpecSync,
\* where no index write fails.)
C1_StoreIndexAgree == \A i \in Ids : AgreeOn(store, index, i)

\* C2: a create_entry whose (title, date) is that of a row already in the
\* store is rejected before any index write: it raises, and the index is
\* as it was before the call.
C2_DuplicateKeyRejected ==
    (/\ last.op = "create_entry"
     /\ IdsByTitleDate(last.store0, last.title, last.date) # {})
    => (/\ last.raised # "none"
        /\ index = last.index0)

\* C3: in every reachable state the index holds at most one document for
\* any id.
C3_AtMostOneDocument == \A i \in Ids : CountOf(index, i) <= 1

\* C4: within a call, every index write for an id comes after a record
\* store write for the same id made by that call.
C4_StoreBeforeIndex ==
    \A n \in 1..Len(last.log) :
        last.log[n].k = "index"
        => \E m \in 1..(n - 1) : last.log[m] = StoreEv(last.log[n].id)

\* C5: every index document with id i carries the fields of a row the
\* store holds, or has held, under id i.  (Stated of SpecHeld, which
\* records the rows held.)
C5_IndexNeverAhead ==
    \A i \in Ids : \A d \in DocsOf(index, i) :
        \E e \in held[i] : d = DocOf(i, e)

\* The call under observation is update_entry or delete_entry for an id
\* the store did not hold.
MissingIdCall ==
    /\ last.op \in {"update_entry", "delete_entry"}
    /\ ~HasId(last.store0, last.id)

\* The call under observation is update_entry for an id the store held.
UpdateOfExisting ==
    /\ last.op = "update_entry"
    /\ HasId(last.store0, last.id)

\* C6: update_entry on an existing id overwrites only the fields that are
\* given and non-empty; every other field keeps the value the store held,
\* in the store and, once the index write is made, in the one index
\* document of the id; when the call raises, the index is as it was.
C6_PartialUpdate ==
    UpdateOfExisting =>
        LET i == last.id
            old == last.store0[i]
        IN /\ DOMAIN store = DOMAIN last.store0
           /\ store[i].title = (IF last.title # "" THEN last.title ELSE old.title)
           /\ store[i].content =
                (IF last.content # "" THEN last.content ELSE old.content)
           /\ store[i].date = (IF last.date # 0 THEN last.date ELSE old.date)
           /\ store[i].tags = (IF last.tags # "" THEN last.tags ELSE old.tags)
           /\ last.raised = "none"
                => /\ DocsOf(index, i) = {DocOf(i, store[i])}
                   /\ CountOf(index, i) = 1
           /\ last.raised # "none" => index = last.index0

\* C6 witness: an update that gave the content alone, changed it, and
\* replaced the document the index held for the id.
C6_Witness ==
    /\ UpdateOfExisting
    /\ last.raised = "none"
    /\ last.title = "" /\ last.date = 0 /\ last.tags = ""
    /\ last.content # ""
    /\ last.content # last.store0[last.id].content
    /\ BagIn(DocOf(last.id, last.store0[last.id]), last.index0)

\* C7: update_data_in_db with a document that carries the id of an entry
\* in the store completes, and leaves the row of that id and its index
\* document holding the document's title, content, date and tags.
C7_UpdateFromFile ==
    (/\ last.op = "update_data_in_db"
     /\ last.id # 0
     /\ HasId(last.store0, last.id))
    => (/\ last.raised = "none"
        /\ HasId(store, last.id)
        /\ store[last.id] = RowOf(last)
        /\ BagIn(DocOf(last.id, RowOf(last)), index))

\* C8, as claimed: update_entry and delete_entry for an id that is not in
\* the store raise NotFoundError.
C8_MissingIdRaises == MissingIdCall => last.raised = "NotFoundError"

\* C8, amended: update_entry and delete_entry for an id that is not in the
\* store print "Entry not found!" and return without raising.
C8_MissingIdPrinted ==
    MissingIdCall
    => (last.raised = "none" /\ last.printed = "Entry not found!")

\* C8 witness: a delete_entry for an id that is not in the store, while the
\* store holds another entry.
C8_Witness ==
    /\ MissingIdCall
    /\ last.op = "delete_entry"
    /\ last.printed = "Entry not found!"
    /\ last.store0 # << >>

\* C9: update_entry and delete_entry for an id that is not in the store
\* write neither the store nor the index.
C9_MissingIdNoWrite ==
    MissingIdCall
    => (/\ store = last.store0
        /\ index = last.index0
        /\ last.log = << >>)

\* C9 witness: a delete_entry for an id that is not in the store while the
\* index still holds a document for that id.
C9_Witness ==
    /\ MissingIdCall
    /\ last.op = "delete_entry"
    /\ DocsOf(last.index0, last.id) # {}
    /\ index = last.index0

\* C10: update_data_in_db with a document whose id is 0, given as 0 or not
\* given in the file's header, raises ValueError and writes neither the
\* store nor the index.
C10_ZeroIdRejected ==
    (last.op = "update_data_in_db" /\ last.id = 0)
    => (/\ last.raised = "ValueError"
        /\ store = last.store0
        /\ index = last.index0)

\* C10 witness: a document read from a header without an id key is
\* rejected while the store holds an entry.
C10_Witness ==
    /\ last.op = "update_data_in_db"
    /\ ~last.idGiven
    /\ last.id = 0
    /\ last.raised = "ValueError"
    /\ last.store0 # << >>

\* The call under observation wrote the store and then lost its index
\* write: the index writer raised, after the one store write of the call.
IndexWriteFailed ==
    /\ last.op \in {"create_entry", "update_entry", "delete_entry"}
    /\ Len(last.log) = 1
    /\ last.log[1].k = "store"

\* C11: when the index write of create_entry, update_entry or delete_entry
\* fails after the store write, the store write stays: the created row is
\* in the store under its new id, the update is applied to the row, the
\* deleted id is gone; the other rows are as they were.
C11_NoRollback ==
    IndexWriteFailed =>
        LET i == last.log[1].id
        IN /\ \A j \in (DOMAIN store \cup DOMAIN last.store0) \ {i} :
                /\ HasId(store, j) /\ HasId(last.store0, j)
                /\ store[j] = last.store0[j]
           /\ last.op = "create_entry"
                => /\ ~HasId(last.store0, i)
                   /\ HasId(store, i)
                   /\ store[i] = RowOf(last)
           /\ last.op = "update_entry"
                => /\ HasId(store, i)
                   /\ store[i].title = (IF last.title # "" THEN last.title
                                        ELSE last.store0[i].title)
                   /\ store[i].content = (IF last.content # ""
                                          THEN last.content
                                          ELSE last.store0[i].content)
           /\ last.op = "delete_entry"
                => /\ HasId(last.store0, i)
                   /\ ~HasId(store, i)

\* C11 witness: a create_entry whose index write failed, its row in the
\* store and no document for it in the index.
C11_Witness ==
    /\ IndexWriteFailed
    /\ last.op = "create_entry"
    /\ last.raised = "IndexError"
    /\ HasId(store, last.log[1].id)
    /\ DocsOf(index, last.log[1].id) = {}

\* C12, as claimed: an index write that fails after the store write is
\* reported as a warning, and the call returns as a call that succeeded.
C12_FailureIsWarning == IndexWriteFailed => last.raised = "none"

\* C12, amended: an index write that fails after the store write makes the
\* call fail: the exception of the index writer leaves the call, which
\* prints nothing and leaves the index as it was.
C12_FailureRaises ==
    IndexWriteFailed
    => (/\ last.raised = "IndexError"
        /\ last.printed = ""
        /\ index = last.index0)

\* C12 witness: an update_entry that changed the row and raised from the
\* index write.
C12_Witness ==
    /\ IndexWriteFailed
    /\ last.op = "update_entry"
    /\ last.raised = "IndexError"
    /\ store[last.id] # last.store0[last.id]

\* The call under observation is delete_entry for an id the store held and
\* the index had no document of.
DeleteOfUnindexed ==
    /\ last.op = "delete_entry"
    /\ HasId(last.store0, last.id)
    /\ DocsOf(last.index0, last.id) = {}

\* C16: delete_entry for an id that is in the store and has no document in
\* the index removes the row; its index delete, when the writer commits,
\* changes nothing and raises nothing, and the call prints that it deleted.
C16_DeleteOfUnindexed ==
    DeleteOfUnindexed
    => (/\ ~HasId(store, last.id)
        /\ index = last.index0
        /\ ~IndexWriteFailed
             => (last.raised = "none" /\ last.printed = "deleted"))

\* C16 witness: a row whose create lost its index write, while the index
\* holds the document of another entry, is deleted and the call returns.
C16_Witness ==
    /\ DeleteOfUnindexed
    /\ last.raised = "none"
    /\ last.log = <<StoreEv(last.id), IndexEv(last.id)>>
    /\ ~HasId(store, last.id)
    /\ index # EmptyBag

\* How many copies of document d the index ix holds.
Copies(ix, d) == IF BagIn(d, ix) THEN ix[d] ELSE 0

\* The call under observation is update_entry or delete_entry.
UpdateOrDelete == last.op \in {"update_entry", "delete_entry"}

\* C17: update_entry and delete_entry for id i leave every row and every
\* index document of another id as it was, and update_entry leaves the set
\* of ids of the store as it was.
C17_OtherIdsUntouched ==
    UpdateOrDelete =>
        /\ \A j \in Ids \ {last.id} :
            /\ HasId(store, j) <=> HasId(last.store0, j)
            /\ HasId(store, j) => store[j] = last.store0[j]
            /\ \A d \in DocsOf(index, j) \cup DocsOf(last.index0, j) :
                 Copies(index, d) = Copies(last.index0, d)
        /\ last.op = "update_entry" => DOMAIN store = DOMAIN last.store0

\* C17 witness: an update_entry that changed its row and replaced its
\* document while the store held another row and the index its document.
C17_Witness ==
    /\ UpdateOfExisting
    /\ last.raised = "none"
    /\ store[last.id] # last.store0[last.id]
    /\ \E j \in Ids \ {last.id} :
         /\ HasId(store, j)
         /\ BagIn(DocOf(j, store[j]), index)

\* C18: an update_entry for id i that starts where store and index
\* disagree on i, and whose index write is made, ends with exactly one
\* document of id i in the index, carrying the fields of the row of i.
C18_UpdateRestoresAgreement ==
    (/\ UpdateOfExisting
     /\ ~AgreeOn(last.store0, last.index0, last.id)
     /\ last.log = <<StoreEv(last.id), IndexEv(last.id)>>)
    => (/\ last.raised = "none"
        /\ DocsOf(index, last.id) = {DocOf(last.id, store[last.id])}
        /\ CountOf(index, last.id) = 1
        /\ AgreeOn(store, index, last.id))

\* C18 witness: the index held a document of the id with fields the row
\* did not have (an earlier update lost its index write); the update left
\* one document, that of the row.
C18_Witness ==
    /\ UpdateOfExisting
    /\ DocsOf(last.index0, last.id) # {}
    /\ ~BagIn(DocOf(last.id, last.store0[last.id]), last.index0)
    /\ last.raised = "none"
    /\ index = SetToBag({DocOf(last.id, store[last.id])})

\* parse_file has read the file that op wrote.
ReadBack(op) == page.op = op /\ page.read # NotRead

\* C13: parse_file of the file write_data_to_file wrote for a document with
\* non-empty title, tags and content and a calendar date returns a document
\* with the same title, tags, date and id (0 or not), and the same content
\* up to the blanks around it.
C13_RoundTrip ==
    ReadBack("write_data_to_file")
    => (/\ page.read.raised = "none"
        /\ page.read.jed.title = page.jed.title
        /\ page.read.jed.tags = page.jed.tags
        /\ page.read.jed.date = page.jed.date
        /\ page.read.jed.id = page.jed.id
        /\ page.read.jed.content = Strip(page.jed.content))

\* C15: parse_file of the file write_template_file wrote, for any id,
\* returns a document with non-empty title, tags and content and that id.
C15_TemplateParses ==
    ReadBack("write_template_file")
    => (/\ page.read.raised = "none"
        /\ page.read.jed.title # << >>
        /\ page.read.jed.tags # << >>
        /\ page.read.jed.content # << >>
        /\ page.read.jed.id = page.jed.id)

\* C15 witness: a template written for an id other than 0, later in the
\* day than midnight, and read back with that id.
C15_Witness ==
    /\ ReadBack("write_template_file")
    /\ page.jed.id # 0
    /\ page.jed.date.tod # 0
    /\ page.read.raised = "none"
    /\ page.read.jed.id = page.jed.id
    /\ page.read.jed.title = <<"post", " ", "title">>

\* The call under observation is `add` or `update` of the cli for a file
\* without two markers, or with a header without one of title, tags, date.
MalformedFileCall ==
    /\ last.op \in {"add_command", "update_command"}
    /\ \/ last.file.markers < 2
       \/ ~(RequiredKeys \subseteq last.file.keys)

\* C14: parse_file raises its format error, ValueError, for a file without
\* two markers and for a header without one of title, tags, date; `add` and
\* `update` of such a file write neither the store nor the index.
C14_MalformedFileRejected ==
    MalformedFileCall
    => (/\ last.raised = "ValueError"
        /\ store = last.store0
        /\ index = last.index0
        /\ last.log = << >>)

====
